---- MODULE Spec2Model ----
(***************************************************************************)
(* Model of the evaluation core of the kids-video evaluation agent:        *)
(* src/analysis_agent.py (chunking, chunk notes, rolling summary, frame    *)
(* describer, prompt assembly, final generation call, response parser)     *)
(* the heuristics of src/heuristics.py, and the command line of            *)
(* src/app.py over the stages of src/video_utils.py and src/helpers.py.    *)
(*                                                                         *)
(* Text is a sequence of one-character strings.  Formatted numbers and     *)
(* the fixed pieces of an f-string are single elements of such a sequence. *)
(***************************************************************************)
EXTENDS Integers, Sequences, FiniteSets, TLC

VARIABLES
    pc,              \* position of the running call
    transcript,      \* run_analysis / chunk_transcript argument
    chunk_words,     \* chunk_transcript argument
    frame_paths,     \* run_analysis argument: sequence of frame file numbers
    heuristics,      \* local of run_analysis
    chunks,          \* local of run_analysis
    chunk_notes,     \* local of run_analysis
    rolling_summary, \* local of run_analysis
    results,         \* local of describe_video_frames
    content,         \* local of run_analysis: the assembled prompt
    reply,           \* local of run_analysis / extract_json argument
    outcome,         \* what the call returned or raised
    calls,           \* requests sent to the client so far, in order
    inflight,        \* requests sent and not yet answered
    env_fault,       \* the failure the file system or the client produced
    duration,        \* run_analysis / aggregate_heuristics argument, seconds
    files,           \* the image stored in each frame file, by file number
    cli_pc,          \* position of app.main
    argv,            \* the command line of app.main
    stdout,          \* what app.main has printed
    stderr,          \* the traceback of an exception nothing caught
    exit_status      \* <<>> while running, then <<status>>

vars == <<pc, transcript, chunk_words, frame_paths, heuristics, chunks,
          chunk_notes, rolling_summary, results, content, reply, outcome,
          calls, inflight, env_fault, duration, files, cli_pc, argv, stdout,
          stderr, exit_status>>

cliVars == <<cli_pc, argv, stdout, stderr, exit_status>>

----------------------------------------------------------------------------
(* Bounds of the model *)

MaxTranscriptLen == 5
MaxChunkWords == 2
MaxChunks == 5
MaxFrames == 2
MaxReplyLen == 5
MaxHeurLen == 4
MaxDuration == 3
MaxVarFrames == 3
MaxPixels == 2
MaxCliWords == 1

(* Program constants *)

DefaultChunkWords == 180
PreviewLen == 200
RollingWindow == 4

----------------------------------------------------------------------------
(* Characters *)

WordChars == {"a", "b"}
SpaceChars == {" ", "\n"}
PunctChars == {"-"}
TranscriptChars == WordChars \cup SpaceChars \cup PunctChars

Min(a, b) == IF a < b THEN a ELSE b
Max(a, b) == IF a > b THEN a ELSE b

IsSpace(c) == c \in SpaceChars

\* \w of the re module
IsWordChar(c) == c \in WordChars \cup {"A"}

----------------------------------------------------------------------------
(* str.split(): the maximal runs of non-whitespace characters, in order *)

RECURSIVE RunStarts(_, _, _)
RunStarts(s, lo, hi) ==
    IF lo > hi THEN <<>>
    ELSE IF lo = hi
         THEN IF ~IsSpace(s[lo]) /\ (lo = 1 \/ IsSpace(s[lo - 1]))
              THEN <<lo>> ELSE <<>>
         ELSE RunStarts(s, lo, (lo + hi) \div 2)
              \o RunStarts(s, ((lo + hi) \div 2) + 1, hi)

RECURSIVE RunEnds(_, _, _)
RunEnds(s, lo, hi) ==
    IF lo > hi THEN <<>>
    ELSE IF lo = hi
         THEN IF ~IsSpace(s[lo]) /\ (lo = Len(s) \/ IsSpace(s[lo + 1]))
              THEN <<lo>> ELSE <<>>
         ELSE RunEnds(s, lo, (lo + hi) \div 2)
              \o RunEnds(s, ((lo + hi) \div 2) + 1, hi)

Slices(s, starts, ends) ==
    [k \in 1..Len(starts) |-> SubSeq(s, starts[k], ends[k])]

str_split(s) == Slices(s, RunStarts(s, 1, Len(s)), RunEnds(s, 1, Len(s)))

(* sep.join(parts) *)
RECURSIVE JoinRange(_, _, _, _)
JoinRange(parts, sep, lo, hi) ==
    IF lo > hi THEN <<>>
    ELSE IF lo = hi THEN parts[lo]
    ELSE JoinRange(parts, sep, lo, (lo + hi) \div 2)
         \o <<sep>>
         \o JoinRange(parts, sep, ((lo + hi) \div 2) + 1, hi)

str_join(sep, parts) == JoinRange(parts, sep, 1, Len(parts))

\* Variant: only the starts of full windows
RECURSIVE RangeFullWindowsOnly(_, _, _)
RangeFullWindowsOnly(start, stop, step) ==
    IF start + step > stop THEN <<>>
    ELSE <<start>> \o RangeFullWindowsOnly(start + step, stop, step)

(* range(start, stop, step) *)
RECURSIVE range(_, _, _)
range(start, stop, step) ==
    IF start >= stop THEN <<>>
    ELSE <<start>> \o range(start + step, stop, step)

\* Variant: a slice one element short
SliceDropsLast(seq, i, j) == SubSeq(seq, i + 1, Min(j, Len(seq)) - 1)

(* words[i : j] for 0 <= i <= j: the slice is cut at the end of the list *)
Slice(seq, i, j) == SubSeq(seq, i + 1, Min(j, Len(seq)))

----------------------------------------------------------------------------
(* chunk_transcript *)

ChunksOf(words, starts, n) ==
    [k \in 1..Len(starts) |->
        str_join(" ", Slice(words, starts[k], starts[k] + n))]

ChunkWindows(words, n) ==
    IF words = <<>> THEN <<>>
    ELSE ChunksOf(words, range(0, Len(words), n), n)

chunk_transcript(t, n) == ChunkWindows(str_split(t), n)

(* build_chunk_notes *)

ReplaceNewlines(s) == [i \in 1..Len(s) |-> IF s[i] = "\n" THEN " " ELSE s[i]]

ChunkNote(idx, chunk) ==
    <<"Chunk ", ToString(idx), " (~", ToString(Len(str_split(chunk))),
      " words): ">>
    \o ReplaceNewlines(Slice(chunk, 0, PreviewLen))

build_chunk_notes(cs) == [idx \in 1..Len(cs) |-> ChunkNote(idx, cs[idx])]

----------------------------------------------------------------------------
(* heuristics.aggregate_heuristics: the number of \b\w+\b matches, which   *)
(* are the maximal runs of word characters                                 *)

word_count(t) ==
    Cardinality({i \in 1..Len(t) :
        IsWordChar(t[i]) /\ (i = 1 \/ ~IsWordChar(t[i - 1]))})

(* Real numbers.  A float is held as the fraction it stands for, in      *)
(* lowest terms with a positive denominator.                               *)

RECURSIVE Gcd(_, _)
Gcd(a, b) == IF b = 0 THEN a ELSE Gcd(b, a % b)

AbsInt(n) == IF n < 0 THEN 0 - n ELSE n

\* n / d for d > 0
Frac(n, d) ==
    [num |-> n \div Gcd(AbsInt(n), d), den |-> d \div Gcd(AbsInt(n), d)]

Zero == Frac(0, 1)
FracSub(x, y) == Frac(x.num * y.den - y.num * x.den, x.den * y.den)
FracAdd(x, y) == Frac(x.num * y.den + y.num * x.den, x.den * y.den)
FracAbs(x) == [num |-> AbsInt(x.num), den |-> x.den]
FracDivInt(x, k) == Frac(x.num, x.den * k)
FracLess(x, y) == x.num * y.den < y.num * x.den
FracMax(x, y) == IF FracLess(x, y) THEN y ELSE x

(* round(x, digits) for x >= 0, with scale = 10 ^ digits: the nearest      *)
(* multiple of 1 / scale.  For the inputs drawn here a value halfway       *)
(* between two multiples is a multiple of 1/8, which a float holds         *)
(* exactly, and round() then takes the even neighbour.                     *)
RoundDown(x, scale) == (x.num * scale) \div x.den

RoundRest(x, scale) == 2 * ((x.num * scale) % x.den)

round(x, scale) ==
    IF RoundRest(x, scale) < x.den THEN Frac(RoundDown(x, scale), scale)
    ELSE IF RoundRest(x, scale) > x.den
         THEN Frac(RoundDown(x, scale) + 1, scale)
    ELSE IF RoundDown(x, scale) % 2 = 0
         THEN Frac(RoundDown(x, scale), scale)
         ELSE Frac(RoundDown(x, scale) + 1, scale)

(* word_repetition_ratio *)

UpperChars == {"A"}

\* str.lower()
ToLowerChar(c) == IF c = "A" THEN "a" ELSE c

\* Variant: the text as it is
KeepCase(s) == s

str_lower(s) == [i \in 1..Len(s) |-> ToLowerChar(s[i])]

\* re.findall(r"\b\w+\b", s): where the matches start, and the match at i
FindallStarts(s) ==
    {i \in 1..Len(s) : IsWordChar(s[i]) /\ (i = 1 \/ ~IsWordChar(s[i - 1]))}

MatchAt(s, i) ==
    SubSeq(s, i,
           CHOOSE j \in i..Len(s) :
               /\ \A k \in i..j : IsWordChar(s[k])
               /\ (j = Len(s) \/ ~IsWordChar(s[j + 1])))

\* len(set(words)) and len(words)
UniqueWords(s) == Cardinality({MatchAt(s, i) : i \in FindallStarts(s)})
TotalWords(s) == Cardinality(FindallStarts(s))

RepetitionOf(unique, total) ==
    IF total = 0 THEN Zero
    ELSE FracMax(Zero, FracSub(Frac(1, 1), Frac(unique, total)))

word_repetition_ratio(text) ==
    RepetitionOf(UniqueWords(str_lower(text)), TotalWords(str_lower(text)))

(* speaking_speed, transcript_density *)

\* Variant: only a zero duration is guarded, a negative one counts as its
\* length
SpeedOfAbsDuration(wc, d) == IF d = 0 THEN Zero ELSE Frac(wc, AbsInt(d))

speaking_speed(wc, d) == IF d <= 0 THEN Zero ELSE Frac(wc, d)

transcript_density(wc, d) == IF d <= 0 THEN Zero ELSE Frac(wc, d)

(* compute_visual_variance.  A frame file holds an image that cannot be    *)
(* opened, or the grayscale pixels of one that can.                        *)

Unreadable == [readable |-> FALSE, pixels |-> <<>>]
Picture(px) == [readable |-> TRUE, pixels |-> px]

RECURSIVE SumInts(_)
SumInts(xs) == IF xs = <<>> THEN 0 ELSE Head(xs) + SumInts(Tail(xs))

RECURSIVE SumFracs(_)
SumFracs(xs) ==
    IF xs = <<>> THEN Zero ELSE FracAdd(Head(xs), SumFracs(Tail(xs)))

\* Variant: the loop stops at the first frame that cannot be averaged
AveragedUntilBad(paths, fs) ==
    SubSeq(paths, 1,
           Cardinality({k \in 1..Len(paths) :
               \A j \in 1..k :
                   fs[paths[j]].readable /\ fs[paths[j]].pixels # <<>>}))

\* The frames whose average is appended: opened, and with pixels
Averaged(paths, fs) ==
    SelectSeq(paths, LAMBDA f : fs[f].readable /\ fs[f].pixels # <<>>)

Averages(paths, fs) ==
    [k \in 1..Len(paths) |->
        Frac(SumInts(fs[paths[k]].pixels), Len(fs[paths[k]].pixels))]

Diffs(averages) ==
    [i \in 1..(Len(averages) - 1) |->
        FracAbs(FracSub(averages[i + 1], averages[i]))]

MeanOfDiffs(averages) ==
    IF Len(averages) < 2 THEN Zero
    ELSE FracDivInt(SumFracs(Diffs(averages)), Len(Diffs(averages)))

compute_visual_variance(paths, fs) ==
    IF Len(paths) < 2 THEN Zero
    ELSE MeanOfDiffs(Averages(Averaged(paths, fs), fs))

(* aggregate_heuristics *)

aggregate_heuristics(t, d, paths, fs) ==
    [word_count |-> word_count(t),
     duration_seconds |-> d,
     repetition_ratio |-> round(word_repetition_ratio(t), 10000),
     speaking_speed_wps |-> round(speaking_speed(word_count(t), d), 100),
     transcript_density_wps |-> round(transcript_density(word_count(t), d), 100),
     visual_variance |-> round(compute_visual_variance(paths, fs), 100)]

NoHeuristics ==
    [word_count |-> 0, duration_seconds |-> 0, repetition_ratio |-> Zero,
     speaking_speed_wps |-> Zero, transcript_density_wps |-> Zero,
     visual_variance |-> Zero]

----------------------------------------------------------------------------
(* What a call hands back: a returned value or a raised exception class *)

NoOutcome == [status |-> "none", value |-> <<>>, error |-> ""]
Returned(v) == [status |-> "returned", value |-> v, error |-> ""]
Raised(cls) == [status |-> "raised", value |-> <<>>, error |-> cls]

\* The classes an exception of class cls is an instance of
\* (json.JSONDecodeError derives from ValueError)
Bases(cls) ==
    CASE cls = "JSONDecodeError" -> {"JSONDecodeError", "ValueError", "Exception"}
      [] cls = "ValueError" -> {"ValueError", "Exception"}
      [] OTHER -> {cls, "Exception"}

\* Whether "except kind" handles an exception of class cls
IsInstance(cls, kind) == kind \in Bases(cls)

----------------------------------------------------------------------------
(* extract_json.  A reply is text over braces, a string literal "s", a     *)
(* colon, a number literal "n", a prose character "x" and the newline.     *)

ReplyChars == {"{", "}", "s", ":", "n", "x", "\n"}
JsonSpace == {"\n", " "}

\* Variant: "." without re.S stops at a newline
DotWithoutDotAll(c) == c # "\n"

\* "." of the pattern: under re.S it matches every character
Dot(c) == TRUE

\* Where a match that starts at i can end: "}" after i, with only "."
\* characters between
MatchEnds(s, i) ==
    {j \in (i + 1)..Len(s) :
        s[j] = "}" /\ \A k \in (i + 1)..(j - 1) : Dot(s[k])}

SetMin(S) == CHOOSE x \in S : \A y \in S : x <= y
SetMax(S) == CHOOSE x \in S : \A y \in S : x >= y

\* Variant: ".*?", the match ends at the first place it can
LazyEnd(s, i) == SetMin(MatchEnds(s, i))

\* ".*" is greedy: the match ends at the last place it can
GreedyEnd(s, i) == SetMax(MatchEnds(s, i))

\* re.search: the leftmost position at which the pattern matches
MatchStarts(s) ==
    {i \in 1..Len(s) : s[i] = "{" /\ MatchEnds(s, i) # {}}

re_search(s) ==
    IF MatchStarts(s) = {}
    THEN [found |-> FALSE, group |-> <<>>]
    ELSE [found |-> TRUE,
          group |-> SubSeq(s, SetMin(MatchStarts(s)),
                           GreedyEnd(s, SetMin(MatchStarts(s))))]

(* json.loads over these tokens.  Whitespace between tokens is skipped; a  *)
(* document is a string, a number, the empty object or an object with one  *)
(* member.  A decoded value is <<"str">>, <<"num">> or <<"obj", members>>, *)
(* members a sequence of <<key, value>>.                                   *)
JsonTokens(text) == SelectSeq(text, LAMBDA c : c \notin JsonSpace)

RECURSIVE DecodeTokens(_)
DecodeTokens(t) ==
    IF t = <<"s">> THEN [ok |-> TRUE, val |-> <<"str">>]
    ELSE IF t = <<"n">> THEN [ok |-> TRUE, val |-> <<"num">>]
    ELSE IF t = <<"{", "}">> THEN [ok |-> TRUE, val |-> <<"obj", <<>>>>]
    ELSE IF Len(t) >= 5 /\ t[1] = "{" /\ t[2] = "s" /\ t[3] = ":"
            /\ t[Len(t)] = "}"
         THEN IF DecodeTokens(SubSeq(t, 4, Len(t) - 1)).ok
              THEN [ok |-> TRUE,
                    val |-> <<"obj",
                              << <<"s", DecodeTokens(SubSeq(t, 4, Len(t) - 1)).val>> >> >>]
              ELSE [ok |-> FALSE, val |-> <<>>]
         ELSE [ok |-> FALSE, val |-> <<>>]

json_loads(text) ==
    IF DecodeTokens(JsonTokens(text)).ok
    THEN Returned(DecodeTokens(JsonTokens(text)).val)
    ELSE Raised("JSONDecodeError")

extract_json(c) ==
    IF ~re_search(c).found
    THEN Raised("ValueError")
    ELSE json_loads(re_search(c).group)

----------------------------------------------------------------------------
(* Values of the variables a specification does not use *)

CliIdle ==
    /\ cli_pc = "none"
    /\ argv = [source |-> "video", api_key |-> TRUE]
    /\ stdout = <<>>
    /\ stderr = <<>>
    /\ exit_status = <<>>

Strings(alphabet, n) == UNION {[1..k -> alphabet] : k \in 0..n}

----------------------------------------------------------------------------
(* SpecChunk: aggregate_heuristics and chunk_transcript applied to every   *)
(* transcript of at most MaxTranscriptLen characters, for every            *)
(* chunk_words in 1..MaxChunkWords                                         *)

InitChunk ==
    /\ pc = "args"
    /\ transcript \in Strings(TranscriptChars, MaxTranscriptLen)
    /\ chunk_words \in 1..MaxChunkWords
    /\ frame_paths = <<>>
    /\ heuristics = NoHeuristics
    /\ chunks = <<>>
    /\ chunk_notes = <<>>
    /\ rolling_summary = <<>>
    /\ results = <<>>
    /\ content = <<>>
    /\ reply = <<>>
    /\ outcome = NoOutcome
    /\ calls = <<>>
    /\ inflight = 0
    /\ env_fault = "none"
    /\ duration = 0
    /\ files = <<>>
    /\ CliIdle

CallAggregateHeuristics ==
    /\ pc = "args"
    /\ heuristics' = aggregate_heuristics(transcript, duration, frame_paths,
                                          files)
    /\ pc' = "counted"
    /\ UNCHANGED <<transcript, chunk_words, frame_paths, chunks, chunk_notes,
                   rolling_summary, results, content, reply, outcome, calls,
                   inflight, env_fault,
                   duration, files, cliVars>>

CallChunkTranscript ==
    /\ pc = "counted"
    /\ chunks' = chunk_transcript(transcript, chunk_words)
    /\ pc' = "chunked"
    /\ UNCHANGED <<transcript, chunk_words, frame_paths, heuristics,
                   chunk_notes, rolling_summary, results, content, reply,
                   outcome, calls, inflight, env_fault,
                   duration, files, cliVars>>

NextChunk == CallAggregateHeuristics \/ CallChunkTranscript

SpecChunk == InitChunk /\ [][NextChunk]_vars

----------------------------------------------------------------------------
(* Chunking properties, checked under SpecChunk *)

RECURSIVE ConcatAll(_)
ConcatAll(seqs) ==
    IF seqs = <<>> THEN <<>> ELSE Head(seqs) \o ConcatAll(Tail(seqs))

WithoutSpaces(t) == SelectSeq(t, LAMBDA c : ~IsSpace(c))

WordsOfChunks == [k \in 1..Len(chunks) |-> str_split(chunks[k])]

\* The whitespace-separated tokens of t, counted without splitting it
TokenCount(t) ==
    Cardinality({i \in 1..Len(t) :
        ~IsSpace(t[i]) /\ (i = 1 \/ IsSpace(t[i - 1]))})

CeilDiv(a, b) == (a + b - 1) \div b

(* C5: the chunks partition the transcript's word sequence: their words,   *)
(* taken in chunk order, are the transcript's words in order (and, read as *)
(* characters, the transcript without its whitespace); every chunk holds   *)
(* at least one word, every chunk but the last exactly chunk_words words,  *)
(* the last between 1 and chunk_words.                                     *)
C5_ChunkingIsPartition ==
    pc = "chunked" =>
        /\ ConcatAll(WordsOfChunks) = str_split(transcript)
        /\ ConcatAll(ConcatAll(WordsOfChunks)) = WithoutSpaces(transcript)
        /\ Len(ConcatAll(WordsOfChunks)) = TokenCount(transcript)
        /\ \A k \in 1..Len(chunks) :
              /\ chunks[k] # <<>>
              /\ Len(WordsOfChunks[k]) >= 1
              /\ Len(WordsOfChunks[k]) <= chunk_words
              /\ k < Len(chunks) => Len(WordsOfChunks[k]) = chunk_words

\* three words in windows of two: a full chunk and a shorter last one
C5_Witness ==
    /\ pc = "chunked"
    /\ chunk_words = 2
    /\ Len(chunks) = 2
    /\ Len(WordsOfChunks[1]) = 2
    /\ Len(WordsOfChunks[2]) = 1
    /\ WordsOfChunks[1][1] # WordsOfChunks[1][2]

(* C6 as stated: for a non-empty transcript the chunk count is             *)
(* ceil(word_count / chunk_words) with word_count the HeuristicBundle's    *)
(* field; for an empty transcript it is 0.                                 *)
C6_ChunkCountFromHeuristicWordCount ==
    pc = "chunked" =>
        IF transcript = <<>>
        THEN Len(chunks) = 0
        ELSE Len(chunks) = CeilDiv(heuristics.word_count, chunk_words)

\* Every whitespace-separated token is one run of word characters
TokensAreWords(t) == \A i \in 1..Len(t) : IsSpace(t[i]) \/ IsWordChar(t[i])

(* C6 amended: the chunk count is ceil(n / chunk_words) with n the number  *)
(* of whitespace-separated tokens of the transcript (0 chunks exactly when *)
(* there is no token); n is the HeuristicBundle's word_count when every    *)
(* token consists of word characters only.                                 *)
C6_ChunkCountFromTokens ==
    pc = "chunked" =>
        /\ Len(chunks) = CeilDiv(TokenCount(transcript), chunk_words)
        /\ (Len(chunks) = 0) <=> (TokenCount(transcript) = 0)
        /\ TokensAreWords(transcript) =>
              Len(chunks) = CeilDiv(heuristics.word_count, chunk_words)

\* a token with punctuation inside: one token, two \w+ matches
C6_Witness ==
    /\ pc = "chunked"
    /\ chunk_words = 1
    /\ TokenCount(transcript) = 1
    /\ heuristics.word_count = 2
    /\ Len(chunks) = 1


----------------------------------------------------------------------------
(* SpecParse: extract_json applied to every reply of at most MaxReplyLen   *)
(* characters                                                              *)

InitParse ==
    /\ pc = "reply"
    /\ reply \in Strings(ReplyChars, MaxReplyLen)
    /\ transcript = <<>>
    /\ chunk_words = DefaultChunkWords
    /\ frame_paths = <<>>
    /\ heuristics = NoHeuristics
    /\ chunks = <<>>
    /\ chunk_notes = <<>>
    /\ rolling_summary = <<>>
    /\ results = <<>>
    /\ content = <<>>
    /\ outcome = NoOutcome
    /\ calls = <<>>
    /\ inflight = 0
    /\ env_fault = "none"
    /\ duration = 0
    /\ files = <<>>
    /\ CliIdle

CallExtractJson ==
    /\ pc = "reply"
    /\ outcome' = extract_json(reply)
    /\ pc' = "parsed"
    /\ UNCHANGED <<transcript, chunk_words, frame_paths, heuristics, chunks,
                   chunk_notes, rolling_summary, results, content, reply,
                   calls, inflight, env_fault,
                   duration, files, cliVars>>

NextParse == CallExtractJson

SpecParse == InitParse /\ [][NextParse]_vars

----------------------------------------------------------------------------
(* Response parser properties, checked under SpecParse *)

Opens(s) == {i \in 1..Len(s) : s[i] = "{"}
Closes(s) == {j \in 1..Len(s) : s[j] = "}"}

\* Some "{" of the reply has a "}" after it
HasBraceSpan(s) == \E i \in Opens(s) : \E j \in Closes(s) : i < j

\* From the first "{" of the reply to its last "}"
BraceSpan(s) == SubSeq(s, SetMin(Opens(s)), SetMax(Closes(s)))

IsJsonObject(text) ==
    /\ text # <<>>
    /\ text[1] = "{"
    /\ DecodeTokens(JsonTokens(text)).ok

\* The places <<i, j>> of the well-formed JSON objects inside the reply
ObjectSpans(s) ==
    {ij \in (1..Len(s)) \X (1..Len(s)) :
        ij[1] < ij[2] /\ IsJsonObject(SubSeq(s, ij[1], ij[2]))}

FirstObjectSpan(s) ==
    CHOOSE ij \in ObjectSpans(s) :
        \A other \in ObjectSpans(s) :
            \/ ij[1] < other[1]
            \/ ij[1] = other[1] /\ ij[2] <= other[2]

FirstObject(s) == SubSeq(s, FirstObjectSpan(s)[1], FirstObjectSpan(s)[2])

(* C8 as stated: whenever the reply contains a well-formed JSON object,    *)
(* extract_json returns the decoding of the first one.                     *)
C8_ReturnsFirstObject ==
    (pc = "parsed" /\ ObjectSpans(reply) # {}) =>
        outcome = Returned(DecodeTokens(JsonTokens(FirstObject(reply))).val)

(* C8 amended: extract_json returns exactly when the text from the first   *)
(* "{" to the last "}" of the reply is one JSON object, and then returns   *)
(* that object's decoding, which is the first object of the reply; when    *)
(* the reply holds an object but that span is not one (a second object or  *)
(* another "}" follows), it raises JSONDecodeError.                        *)
C8_ReturnsObjectOnlyWhenWholeSpan ==
    pc = "parsed" =>
        /\ outcome.status = "returned"
              <=> (HasBraceSpan(reply) /\ IsJsonObject(BraceSpan(reply)))
        /\ outcome.status = "returned" =>
              /\ outcome.value = DecodeTokens(JsonTokens(BraceSpan(reply))).val
              /\ FirstObject(reply) = BraceSpan(reply)
              /\ FirstObjectSpan(reply)
                    = <<SetMin(Opens(reply)), SetMax(Closes(reply))>>
        /\ (ObjectSpans(reply) # {} /\ ~IsJsonObject(BraceSpan(reply))) =>
              outcome = Raised("JSONDecodeError")

\* an object between commentary is returned; an object followed by a
\* second one is not
C8_Witness ==
    /\ pc = "parsed"
    /\ reply = <<"x", "{", "}", "x">>
    /\ outcome = Returned(<<"obj", <<>>>>)

(* C9: the text extract_json decodes runs from the first "{" of the reply  *)
(* to its last "}", newlines included; so for a reply prefix + object +    *)
(* suffix with no "{" in the prefix and no "}" in the suffix, the result   *)
(* is the decoding of the object alone.                                    *)
C9_ToleratesCommentary ==
    pc = "parsed" =>
        /\ HasBraceSpan(reply) => outcome = json_loads(BraceSpan(reply))
        /\ \A i \in 1..Len(reply) : \A j \in i..Len(reply) :
              ( /\ IsJsonObject(SubSeq(reply, i, j))
                /\ \A k \in 1..(i - 1) : reply[k] # "{"
                /\ \A k \in (j + 1)..Len(reply) : reply[k] # "}" )
              => outcome
                   = Returned(DecodeTokens(JsonTokens(SubSeq(reply, i, j))).val)

\* commentary on both sides of an object that spans a newline
C9_Witness ==
    /\ pc = "parsed"
    /\ reply = <<"x", "{", "\n", "}", "x">>
    /\ outcome = Returned(<<"obj", <<>>>>)

(* C10: a reply without a "{" ... "}" span fails with the object-not-found *)
(* kind (ValueError) and not with a decode error; a reply whose span is    *)
(* not valid JSON fails with a decode error that is not of the             *)
(* object-not-found kind, so no handler of the one receives the other.     *)
C10_DistinctErrorKinds ==
    pc = "parsed" =>
        /\ ~HasBraceSpan(reply) =>
              /\ outcome.status = "raised"
              /\ outcome.error = "ValueError"
              /\ ~IsInstance(outcome.error, "JSONDecodeError")
        /\ (HasBraceSpan(reply) /\ ~IsJsonObject(BraceSpan(reply))) =>
              /\ outcome.status = "raised"
              /\ IsInstance(outcome.error, "JSONDecodeError")
              /\ ~IsInstance(outcome.error, "ValueError")

----------------------------------------------------------------------------
(* run_analysis and describe_video_frames *)

\* None, as opposed to any text
NoneValue == <<"None">>

\* str.strip()
NonSpaceAt(s) == {i \in 1..Len(s) : ~IsSpace(s[i])}

str_strip(s) ==
    IF NonSpaceAt(s) = {} THEN <<>>
    ELSE SubSeq(s, SetMin(NonSpaceAt(s)), SetMax(NonSpaceAt(s)))

\* str(frame_path) of the frame file with number f
PathStr(f) == <<"frame_", ToString(f), ".jpg">>

\* What the vision model answers for the image of frame file f
VisionText(f) == <<" ", "d", ToString(f), "\n">>

\* The requests of the client
VisionCall(f) == [kind |-> "vision", image |-> f]
FinalCall == [kind |-> "final", image |-> 0]

\* The dict describe_video_frames appends for a frame
FrameResult(f, description_text) ==
    [frame_path |-> PathStr(f),
     visual_description |-> str_strip(description_text)]

\* Variant: chunk_notes[:4]
FirstNotes(notes) == SubSeq(notes, 1, Min(RollingWindow, Len(notes)))

\* chunk_notes[-4:]
LastNotes(notes) ==
    SubSeq(notes, Max(1, Len(notes) - RollingWindow + 1), Len(notes))

NoTranscript == <<"No transcript available">>

RollingSummary(notes) ==
    IF notes # <<>> THEN str_join("\n", LastNotes(notes)) ELSE NoTranscript

\* Variant: the label taken from the file name
VisualNoteByFileNumber(idx, frame) ==
    <<"Frame ", frame.frame_path[2], ": ">>
    \o str_strip(frame.visual_description) \o <<"\n">>

\* One element of visual_notes
VisualNote(idx, frame) ==
    <<"Frame ", ToString(idx), ": ">>
    \o str_strip(frame.visual_description) \o <<"\n">>

VisualNotes(descriptions) ==
    [idx \in 1..Len(descriptions) |-> VisualNote(idx, descriptions[idx])]

VisualSummary(descriptions) ==
    IF VisualNotes(descriptions) # <<>>
    THEN str_join("\n", VisualNotes(descriptions))
    ELSE <<"No visual descriptions available.">>

\* Variant: only the notes of the rolling window
ChunkLinesWindowOnly(notes) == LastNotes(notes)

\* content_lines.extend(chunk_notes)
ChunkLines(notes) == notes

(* content_lines.  The formatted duration, the language hint, the visual   *)
(* variance and the heuristics other than word_count are values no later   *)
(* step reads; their lines carry their fixed text only.                    *)
ContentLines(h, paths, summary, notes, descriptions) ==
    << <<"Language hint: ">>,
       <<"Duration (seconds): ">>,
       <<"Heuristics: ", "{word_count: ", ToString(h.word_count), "}">>,
       <<"Frames sampled: ", ToString(Len(paths)), " (visual variance ", ")">>,
       <<>>,
       <<"Rolling transcript summary:">>,
       summary,
       <<>>,
       <<"Transcript chunks:">> >>
    \o ChunkLines(notes)
    \o << <<>>,
          <<"Visual frame descriptions (single-frame, limited context):">>,
          VisualSummary(descriptions),
          <<>>,
          <<"Brain rot signals: ">>,
          <<"Learning value signals: ">>,
          <<"21st century alignment: ">>,
          <<"AI slop signals: ">>,
          <<"instructions">>,
          <<"Construct the result so that each array field contains a few short, cautious bullet-like strings.">>,
          <<"If any rubric category cannot be assessed, note this in uncertainties.">> >>

AssembleContent(h, paths, summary, notes, descriptions) ==
    str_join("\n", ContentLines(h, paths, summary, notes, descriptions))

----------------------------------------------------------------------------
(* Inputs of run_analysis *)

\* A transcript of n words, "a" and "b" in turn, separated by a space or,
\* after every fifth word, a newline
TranscriptOfWords(n) ==
    [i \in 1..(2 * n - 1) |->
        IF i % 2 = 1
        THEN (IF ((i + 1) \div 2) % 2 = 1 THEN "a" ELSE "b")
        ELSE (IF i % 10 = 0 THEN "\n" ELSE " ")]

\* For each chunk count up to MaxChunks, the fewest and the most words
TranscriptWordCounts ==
    {0} \cup {DefaultChunkWords * (k - 1) + 1 : k \in 1..MaxChunks}
        \cup {DefaultChunkWords * k : k \in 1..MaxChunks}

\* Frame files in any order, no file twice
FramePathLists ==
    {fs \in UNION {[1..n -> 1..MaxFrames] : n \in 0..MaxFrames} :
        \A i, j \in 1..Len(fs) : i # j => fs[i] # fs[j]}

\* The probed duration: unknown (0) or two minutes
RunDurations == {0, 120}

\* The sampled frame files: frame f is one pixel of luminance 10 * f
FrameFiles == [f \in 1..MaxFrames |-> Picture(<<10 * f>>)]

\* What the text model may answer
FinalReplies ==
    { <<"{", "s", ":", "n", "}">>,
      <<"x", "\n", "{", "}", "x">>,
      <<"{", "}", "{", "}">>,
      <<"{", "x", "}">>,
      <<"x">>,
      NoneValue }

Init ==
    /\ pc = "heuristics"
    /\ transcript \in {TranscriptOfWords(n) : n \in TranscriptWordCounts}
    /\ chunk_words = DefaultChunkWords
    /\ frame_paths \in FramePathLists
    /\ heuristics = NoHeuristics
    /\ chunks = <<>>
    /\ chunk_notes = <<>>
    /\ rolling_summary = <<>>
    /\ results = <<>>
    /\ content = <<>>
    /\ reply = <<>>
    /\ outcome = NoOutcome
    /\ calls = <<>>
    /\ inflight = 0
    /\ env_fault = "none"
    /\ duration \in RunDurations
    /\ files = FrameFiles
    /\ CliIdle

\* 1. aggregate_heuristics
RunHeuristics ==
    /\ pc = "heuristics"
    /\ heuristics' = aggregate_heuristics(transcript, duration, frame_paths,
                                          files)
    /\ pc' = "chunking"
    /\ UNCHANGED <<transcript, chunk_words, frame_paths, chunks, chunk_notes,
                   rolling_summary, results, content, reply, outcome, calls,
                   inflight, env_fault,
                   duration, files, cliVars>>

\* 2. chunks, chunk notes, rolling summary
RunChunking ==
    /\ pc = "chunking"
    /\ chunks' = chunk_transcript(transcript, chunk_words)
    /\ chunk_notes' = build_chunk_notes(chunks')
    /\ rolling_summary' = RollingSummary(chunk_notes')
    /\ pc' = "describe"
    /\ UNCHANGED <<transcript, chunk_words, frame_paths, heuristics, results,
                   content, reply, outcome, calls, inflight, env_fault,
                   duration, files, cliVars>>

\* 3. describe_video_frames: the next frame is read and sent
DescribeNextFrame ==
    /\ pc = "describe"
    /\ Len(results) < Len(frame_paths)
    /\ calls' = Append(calls, VisionCall(frame_paths[Len(results) + 1]))
    /\ inflight' = inflight + 1
    /\ pc' = "vision_wait"
    /\ UNCHANGED <<transcript, chunk_words, frame_paths, heuristics, chunks,
                   chunk_notes, rolling_summary, results, content, reply,
                   outcome, env_fault,
                   duration, files, cliVars>>

\* encode_image_base64 cannot read the next frame: open() raises
ReadFrameRaises ==
    /\ pc = "describe"
    /\ Len(results) < Len(frame_paths)
    /\ env_fault' = "read"
    /\ outcome' = Raised("OSError")
    /\ pc' = "done"
    /\ UNCHANGED <<transcript, chunk_words, frame_paths, heuristics, chunks,
                   chunk_notes, rolling_summary, results, content, reply,
                   calls, inflight,
                   duration, files, cliVars>>

\* the vision call returns a description, which is appended
VisionReturns ==
    /\ pc = "vision_wait"
    /\ inflight' = inflight - 1
    /\ results' = Append(results,
          FrameResult(frame_paths[Len(results) + 1],
                      VisionText(calls[Len(calls)].image)))
    /\ pc' = "describe"
    /\ UNCHANGED <<transcript, chunk_words, frame_paths, heuristics, chunks,
                   chunk_notes, rolling_summary, content, reply, outcome,
                   calls, env_fault,
                   duration, files, cliVars>>

\* Variant: a failed frame is replaced by a placeholder and the loop goes on
VisionRaisesIsolated ==
    /\ pc = "vision_wait"
    /\ inflight' = inflight - 1
    /\ env_fault' = "vision"
    /\ results' = Append(results,
          FrameResult(frame_paths[Len(results) + 1],
                      <<"description unavailable">>))
    /\ pc' = "describe"
    /\ UNCHANGED <<transcript, chunk_words, frame_paths, heuristics, chunks,
                   chunk_notes, rolling_summary, content, reply, outcome,
                   calls,
                   duration, files, cliVars>>

\* Variant: a failed vision call is sent again
VisionRaisesAndRetries ==
    /\ pc = "vision_wait"
    /\ inflight' = inflight - 1
    /\ env_fault' = "none"
    /\ Len(calls) <= Len(frame_paths)
    /\ pc' = "describe"
    /\ UNCHANGED <<transcript, chunk_words, frame_paths, heuristics, chunks,
                   chunk_notes, rolling_summary, results, content, reply,
                   outcome, calls,
                   duration, files, cliVars>>

\* the vision call raises, or answers without content (None has no strip):
\* nothing catches it
VisionRaises ==
    /\ pc = "vision_wait"
    /\ inflight' = inflight - 1
    /\ \E fault \in {"vision", "vision_none"} :
          /\ env_fault' = fault
          /\ outcome' = Raised(IF fault = "vision" THEN "APIError"
                                                  ELSE "AttributeError")
    /\ pc' = "done"
    /\ UNCHANGED <<transcript, chunk_words, frame_paths, heuristics, chunks,
                   chunk_notes, rolling_summary, results, content, reply,
                   calls,
                   duration, files, cliVars>>

\* describe_video_frames returns; 4., 5. the prompt is assembled
AssemblePrompt ==
    /\ pc = "describe"
    /\ Len(results) = Len(frame_paths)
    /\ content' = AssembleContent(heuristics, frame_paths, rolling_summary,
                                  chunk_notes, results)
    /\ pc' = "generate"
    /\ UNCHANGED <<transcript, chunk_words, frame_paths, heuristics, chunks,
                   chunk_notes, rolling_summary, results, reply, outcome,
                   calls, inflight, env_fault,
                   duration, files, cliVars>>

\* 6. the final generation call is sent
CallGenerate ==
    /\ pc = "generate"
    /\ calls' = Append(calls, FinalCall)
    /\ inflight' = inflight + 1
    /\ pc' = "generate_wait"
    /\ UNCHANGED <<transcript, chunk_words, frame_paths, heuristics, chunks,
                   chunk_notes, rolling_summary, results, content, reply,
                   outcome, env_fault,
                   duration, files, cliVars>>

GenerateReturns ==
    /\ pc = "generate_wait"
    /\ inflight' = inflight - 1
    /\ reply' \in FinalReplies
    /\ pc' = "parse"
    /\ UNCHANGED <<transcript, chunk_words, frame_paths, heuristics, chunks,
                   chunk_notes, rolling_summary, results, content, outcome,
                   calls, env_fault,
                   duration, files, cliVars>>

GenerateRaises ==
    /\ pc = "generate_wait"
    /\ inflight' = inflight - 1
    /\ env_fault' = "generate"
    /\ outcome' = Raised("APIError")
    /\ pc' = "done"
    /\ UNCHANGED <<transcript, chunk_words, frame_paths, heuristics, chunks,
                   chunk_notes, rolling_summary, results, content, reply,
                   calls,
                   duration, files, cliVars>>

\* return extract_json(reply); re.search raises TypeError on None
ParseReply ==
    /\ pc = "parse"
    /\ outcome' = IF reply = NoneValue THEN Raised("TypeError")
                                        ELSE extract_json(reply)
    /\ pc' = "done"
    /\ UNCHANGED <<transcript, chunk_words, frame_paths, heuristics, chunks,
                   chunk_notes, rolling_summary, results, content, reply,
                   calls, inflight, env_fault,
                   duration, files, cliVars>>

Next ==
    \/ RunHeuristics
    \/ RunChunking
    \/ DescribeNextFrame
    \/ ReadFrameRaises
    \/ VisionReturns
    \/ VisionRaises
    \/ AssemblePrompt
    \/ CallGenerate
    \/ GenerateReturns
    \/ GenerateRaises
    \/ ParseReply

Spec == Init /\ [][Next]_vars

----------------------------------------------------------------------------
(* Pipeline properties, checked under Spec *)

NumFrames == Len(frame_paths)

\* The vision calls for the first k frames, in frame order
VisionCallsFor(k) == [i \in 1..k |-> VisionCall(frame_paths[i])]

FinalCallSent == \E i \in 1..Len(calls) : calls[i] = FinalCall

StageRank(p) ==
    CASE p = "heuristics" -> 1
      [] p = "chunking" -> 2
      [] p \in {"describe", "vision_wait"} -> 3
      [] p = "generate" -> 4
      [] p = "generate_wait" -> 5
      [] p = "parse" -> 6
      [] p = "done" -> 7

C1_CallsInOrder ==
    /\ inflight \in {0, 1}
    /\ (inflight = 1) <=> (pc \in {"vision_wait", "generate_wait"})
    /\ \E k \in 0..NumFrames :
          \/ calls = VisionCallsFor(k)
          \/ k = NumFrames /\ calls = Append(VisionCallsFor(k), FinalCall)
    /\ \A i, j \in 1..Len(calls) : i # j => calls[i] # calls[j]
    /\ Len(calls) <= Len(results) + 1
    /\ FinalCallSent =>
          /\ Len(results) = NumFrames
          /\ content # <<>>
          /\ StageRank(pc) >= 5
    /\ (calls # <<>> \/ results # <<>>) => StageRank(pc) >= 3
    /\ outcome.status = "returned" =>
          /\ pc = "done"
          /\ calls = Append(VisionCallsFor(NumFrames), FinalCall)

C1_StageStep ==
    /\ StageRank(pc') >= StageRank(pc)
    /\ (pc # "done" /\ StageRank(pc') > StageRank(pc) + 1) =>
          (pc' = "done" /\ outcome'.status = "raised")
    /\ Len(calls') >= Len(calls)
    /\ Len(calls') > Len(calls) => (Len(calls') = Len(calls) + 1 /\ inflight = 0)

(* C1: the stages of run_analysis happen in the order heuristics,          *)
(* chunking, frame descriptions, prompt assembly, final generation call,   *)
(* parsing; the calls sent are the vision calls of the frames in order,    *)
(* each at most once, then at most one final call, sent only after every   *)
(* vision call has returned; no call is sent while another is unanswered;  *)
(* a run that returns has sent exactly N vision calls and then 1 final     *)
(* call.                                                                   *)
C1_SequentialPipeline == [](C1_CallsInOrder) /\ [][C1_StageStep]_vars

\* a run over two frames that returned a record
C1_Witness ==
    /\ pc = "done"
    /\ outcome.status = "returned"
    /\ NumFrames = 2
    /\ Len(calls) = 3
    /\ Len(chunks) >= 2

C2_FailureAborts ==
    /\ env_fault # "none" =>
          /\ pc = "done"
          /\ outcome.status = "raised"
          /\ outcome.value = <<>>
    /\ env_fault \in {"read", "vision", "vision_none"} =>
          /\ ~FinalCallSent
          /\ content = <<>>
          /\ Len(results) < NumFrames
          /\ Len(calls) = Len(results) + (IF env_fault = "read" THEN 0 ELSE 1)
    /\ outcome.status = "raised" =>
          /\ pc = "done"
          /\ outcome.value = <<>>
    /\ (pc = "done" /\ env_fault = "none") =>
          outcome = (IF reply = NoneValue THEN Raised("TypeError")
                                          ELSE extract_json(reply))
    /\ outcome.status = "returned" =>
          /\ env_fault = "none"
          /\ Len(results) = NumFrames
          /\ FinalCallSent
          /\ IsJsonObject(BraceSpan(reply))

(* C2: a failure of any stage ends the run with the error and no record:   *)
(* after a failed image read or vision call for frame k no further vision  *)
(* call and no final call is sent; a failed final call or a reply that     *)
(* does not parse yields no record; once the error is raised nothing more  *)
(* happens.                                                                *)
C2_NoPartialResult ==
    [](C2_FailureAborts) /\ [][outcome.status = "raised" => UNCHANGED vars]_vars

\* the vision call of the first of two frames failed
C2_Witness ==
    /\ env_fault = "vision"
    /\ NumFrames = 2
    /\ results = <<>>
    /\ Len(calls) = 1
    /\ outcome = Raised("APIError")

\* The places of the frame labels in the prompt
LabelPlaces(c) == {p \in 1..Len(c) : c[p] = "Frame "}

(* C3: describe_video_frames sends one vision call per frame in input      *)
(* order and its i-th result is the path and the description of the i-th   *)
(* frame; the prompt carries exactly N labels, Frame 1 .. Frame N in this  *)
(* order, label i followed by the description of the i-th frame whatever   *)
(* its file number, and N is the Frames sampled count of the prompt.       *)
C3_FramesOrderPreserved ==
    /\ \A i \in 1..Len(results) :
          /\ i <= NumFrames
          /\ calls[i] = VisionCall(frame_paths[i])
          /\ results[i].frame_path = PathStr(frame_paths[i])
          /\ results[i].visual_description = <<"d", ToString(frame_paths[i])>>
    /\ StageRank(pc) \in 4..6 => Len(results) = NumFrames
    /\ content # <<>> =>
          /\ Cardinality(LabelPlaces(content)) = NumFrames
          /\ \A i \in 1..NumFrames : \E p \in LabelPlaces(content) :
                /\ Cardinality({q \in LabelPlaces(content) : q <= p}) = i
                /\ SubSeq(content, p, p + 4)
                     = <<"Frame ", ToString(i), ": ", "d",
                         ToString(frame_paths[i])>>
          /\ \E p \in 1..Len(content) :
                /\ content[p] = "Frames sampled: "
                /\ content[p + 1] = ToString(NumFrames)
          /\ Cardinality({p \in 1..Len(content) :
                            content[p] = "Frames sampled: "}) = 1

\* a prompt for the frame files 2, 1 in this order
C3_Witness ==
    /\ content # <<>>
    /\ frame_paths = <<2, 1>>
    /\ Len(results) = 2

\* The chunk notes the prompt carries
NoteLineCount(c) == Cardinality({p \in 1..Len(c) : c[p] = "Chunk "})

(* C4 as stated: the number of chunk-note lines of the prompt is bounded   *)
(* by what the rolling window admits (RollingWindow notes in the summary   *)
(* and as many in the chunk list), however many chunks there are.          *)
C4_PromptBounded ==
    content # <<>> => NoteLineCount(content) <= 2 * RollingWindow

(* C4 amended: the rolling summary carries at most RollingWindow notes,    *)
(* each of at most PreviewLen characters after its heading; the prompt     *)
(* carries these and the note of every chunk, min(n, RollingWindow) + n    *)
(* note lines for n chunks, so it grows with the transcript.               *)
C4_PromptGrowsWithChunks ==
    /\ NoteLineCount(rolling_summary) <= RollingWindow
    /\ \A k \in 1..Len(chunk_notes) : Len(chunk_notes[k]) <= 5 + PreviewLen
    /\ content # <<>> =>
          /\ NoteLineCount(content)
                = Min(Len(chunks), RollingWindow) + Len(chunks)
          /\ Len(content) >= Len(chunks)

\* a transcript of more chunks than the rolling window holds
C4_Witness ==
    /\ content # <<>>
    /\ Len(chunks) = RollingWindow + 1
    /\ NoteLineCount(content) = 2 * RollingWindow + 1

\* Text cut at its newlines
RECURSIVE NewlinePlaces(_, _, _)
NewlinePlaces(s, lo, hi) ==
    IF lo > hi THEN <<>>
    ELSE IF lo = hi THEN (IF s[lo] = "\n" THEN <<lo>> ELSE <<>>)
    ELSE NewlinePlaces(s, lo, (lo + hi) \div 2)
         \o NewlinePlaces(s, ((lo + hi) \div 2) + 1, hi)

LinesBetween(s, cuts) ==
    [k \in 1..(Len(cuts) - 1) |-> SubSeq(s, cuts[k] + 1, cuts[k + 1] - 1)]

Lines(s) ==
    LinesBetween(s, <<0>> \o NewlinePlaces(s, 1, Len(s)) \o <<Len(s) + 1>>)

SummaryHoldsLastNotes(lines, n, m) ==
    /\ Len(lines) = m
    /\ \A k \in 1..m :
          /\ lines[k] = chunk_notes[n - m + k]
          /\ lines[k][1] = "Chunk "
          /\ lines[k][2] = ToString(n - m + k)
          /\ SubSeq(lines[k], 6, Len(lines[k]))
               = SubSeq(chunks[n - m + k], 1,
                        Min(PreviewLen, Len(chunks[n - m + k])))

(* C7: for n chunks the rolling summary is the notes of the last           *)
(* min(n, 4) chunks, one per line in chunk order, each with the index of   *)
(* its chunk in the full sequence; for no chunk it is the placeholder.     *)
C7_RollingSummaryLastFour ==
    StageRank(pc) >= 3 =>
        IF Len(chunks) = 0
        THEN rolling_summary = <<"No transcript available">>
        ELSE SummaryHoldsLastNotes(Lines(rolling_summary), Len(chunks),
                                   Min(Len(chunks), 4))

\* five chunks: the summary starts at the note of chunk 2
C7_Witness ==
    /\ pc = "describe"
    /\ Len(chunks) = 5
    /\ SubSeq(rolling_summary, 1, 2) = <<"Chunk ", "2">>

----------------------------------------------------------------------------
(* SpecHeur: aggregate_heuristics applied to every text of at most         *)
(* MaxHeurLen characters with every duration in -1..MaxDuration and no     *)
(* frame, and to every list of at most MaxVarFrames frame files holding    *)
(* unreadable, empty or at most MaxPixels-pixel images.                    *)

HeurChars == {"a", "A", "b", " ", "-"}
Durations == (0 - 1)..MaxDuration
Luminances == {0, 255}
Images ==
    {Unreadable} \cup {Picture(px) : px \in Strings(Luminances, MaxPixels)}

InitHeur ==
    /\ pc = "args"
    /\ \/ /\ transcript \in Strings(HeurChars, MaxHeurLen)
          /\ duration \in Durations
          /\ frame_paths = <<>>
          /\ files = <<>>
       \/ /\ transcript = <<>>
          /\ duration = 0
          /\ \E n \in 1..MaxVarFrames :
                /\ frame_paths = [k \in 1..n |-> k]
                /\ files \in [1..n -> Images]
    /\ chunk_words = DefaultChunkWords
    /\ heuristics = NoHeuristics
    /\ chunks = <<>>
    /\ chunk_notes = <<>>
    /\ rolling_summary = <<>>
    /\ results = <<>>
    /\ content = <<>>
    /\ reply = <<>>
    /\ outcome = NoOutcome
    /\ calls = <<>>
    /\ inflight = 0
    /\ env_fault = "none"
    /\ CliIdle

NextHeur == CallAggregateHeuristics

SpecHeur == InitHeur /\ [][NextHeur]_vars

----------------------------------------------------------------------------
(* Heuristic properties, checked under SpecHeur *)

\* The maximal runs of word characters of t, as <<first, last>>
WordRuns(t) ==
    {r \in (1..Len(t)) \X (1..Len(t)) :
        /\ r[1] <= r[2]
        /\ \A k \in r[1]..r[2] : IsWordChar(t[k])
        /\ (r[1] = 1 \/ ~IsWordChar(t[r[1] - 1]))
        /\ (r[2] = Len(t) \/ ~IsWordChar(t[r[2] + 1]))}

\* Two runs spell the same word once lowercased
SameWord(t, r, q) ==
    /\ r[2] - r[1] = q[2] - q[1]
    /\ \A k \in 0..(r[2] - r[1]) :
          ToLowerChar(t[r[1] + k]) = ToLowerChar(t[q[1] + k])

AllDistinct(t) ==
    \A r, q \in WordRuns(t) : SameWord(t, r, q) => r = q

\* One run for each different word
DistinctCount(t) ==
    Cardinality({r \in WordRuns(t) :
        \A q \in WordRuns(t) : SameWord(t, r, q) => r[1] <= q[1]})

RatioAsClaimed(t, x) ==
    /\ x.num >= 0 /\ x.den > 0 /\ x.num <= x.den
    /\ (x.num = 0) <=> AllDistinct(t)
    /\ WordRuns(t) # {} =>
          /\ x.num < x.den
          /\ x.num * Cardinality(WordRuns(t))
               = x.den * (Cardinality(WordRuns(t)) - DistinctCount(t))
    /\ WordRuns(t) = {} => x = Zero

(* C11: word_repetition_ratio(T) is max(0, 1 - unique / total) over the    *)
(* lowercased word tokens of T; it lies in [0, 1], is 0 exactly when all   *)
(* tokens are distinct, is below 1 for any token list that is not empty,   *)
(* and is 0 when T has no word token.  The bundle holds it rounded to 4    *)
(* decimals.                                                               *)
C11_RepetitionRatioInUnitInterval ==
    pc = "counted" =>
        /\ RatioAsClaimed(transcript, word_repetition_ratio(transcript))
        /\ heuristics.repetition_ratio.num >= 0
        /\ heuristics.repetition_ratio.num <= heuristics.repetition_ratio.den
        /\ 20000 * AbsInt(FracSub(heuristics.repetition_ratio,
                                  word_repetition_ratio(transcript)).num)
              <= FracSub(heuristics.repetition_ratio,
                         word_repetition_ratio(transcript)).den

\* the same word in two spellings: one of two tokens repeats
C11_Witness ==
    /\ pc = "counted"
    /\ transcript = <<"A", " ", "a">>
    /\ heuristics.repetition_ratio = Frac(1, 2)

(* C12 as stated: the two rate fields are equal, are 0 for a duration of   *)
(* zero or less, and for a positive duration hold exactly                  *)
(* word_count / duration.                                                  *)
C12_RatesAreWordCountOverDuration ==
    pc = "counted" =>
        /\ heuristics.speaking_speed_wps = heuristics.transcript_density_wps
        /\ duration <= 0 => heuristics.speaking_speed_wps = Zero
        /\ duration > 0 =>
              heuristics.speaking_speed_wps.num * duration
                 = heuristics.speaking_speed_wps.den
                      * Cardinality(WordRuns(transcript))

\* x is the multiple of 1/100 nearest to n / d
NearestHundredth(x, n, d) ==
    /\ (100 * x.num) % x.den = 0
    /\ 200 * AbsInt(x.num * d - n * x.den) <= x.den * d

(* C12, amended: the two rate fields are equal; both are 0, and nothing is *)
(* raised, for a duration of zero or less; for a positive duration both    *)
(* hold word_count / duration rounded to 2 decimals.                       *)
C12_RatesAreRoundedQuotient ==
    pc = "counted" =>
        /\ heuristics.speaking_speed_wps = heuristics.transcript_density_wps
        /\ heuristics.word_count = Cardinality(WordRuns(transcript))
        /\ duration <= 0 =>
              /\ heuristics.speaking_speed_wps = Zero
              /\ heuristics.transcript_density_wps = Zero
        /\ duration > 0 =>
              /\ NearestHundredth(heuristics.speaking_speed_wps,
                                  Cardinality(WordRuns(transcript)), duration)
              /\ NearestHundredth(heuristics.transcript_density_wps,
                                  Cardinality(WordRuns(transcript)), duration)

\* two words over three seconds: 0.67 in both fields, not 2/3
C12_Witness ==
    /\ pc = "counted"
    /\ duration = 3
    /\ heuristics.word_count = 2
    /\ heuristics.speaking_speed_wps = Frac(67, 100)
    /\ heuristics.transcript_density_wps = Frac(67, 100)

\* The places of the frames that yield a mean luminance
ReadablePlaces(paths, fs) ==
    {k \in 1..Len(paths) :
        fs[paths[k]].readable /\ fs[paths[k]].pixels # <<>>}

MeanLuminance(img) == Frac(SumInts(img.pixels), Len(img.pixels))

\* Readable frames next to each other once the others are left out
Neighbours(R) ==
    {p \in R \X R :
        p[1] < p[2] /\ ~(\E k \in R : p[1] < k /\ k < p[2])}

RECURSIVE SumGaps(_, _, _)
SumGaps(P, paths, fs) ==
    IF P = {} THEN Zero
    ELSE LET p == CHOOSE q \in P : TRUE
         IN  FracAdd(FracAbs(FracSub(MeanLuminance(fs[paths[p[2]]]),
                                     MeanLuminance(fs[paths[p[1]]]))),
                     SumGaps(P \ {p}, paths, fs))

VarianceAsClaimed(paths, fs, R, x) ==
    /\ (Len(paths) < 2 \/ Cardinality(R) < 2) => x = Zero
    /\ (\A i, j \in R :
            MeanLuminance(fs[paths[i]]) = MeanLuminance(fs[paths[j]]))
          => x = Zero
    /\ Cardinality(R) >= 2 =>
          x = FracDivInt(SumGaps(Neighbours(R), paths, fs),
                         Cardinality(Neighbours(R)))

(* C13: compute_visual_variance returns for every list of frames, bad ones *)
(* included: unreadable frames are left out, the result is the mean of the *)
(* absolute differences between the mean luminances of readable frames    *)
(* that are neighbours once the others are left out, and it is 0 when      *)
(* fewer than 2 frames are supplied, fewer than 2 are readable, or all     *)
(* readable frames have the same mean luminance.  The bundle holds it      *)
(* rounded to 2 decimals.                                                  *)
C13_VarianceSkipsBadFrames ==
    pc = "counted" =>
        /\ VarianceAsClaimed(frame_paths, files,
                             ReadablePlaces(frame_paths, files),
                             compute_visual_variance(frame_paths, files))
        /\ NearestHundredth(heuristics.visual_variance,
                            compute_visual_variance(frame_paths, files).num,
                            compute_visual_variance(frame_paths, files).den)

\* a dark and a bright frame with an unreadable one between them
C13_Witness ==
    /\ pc = "counted"
    /\ Len(frame_paths) = 3
    /\ files = <<Picture(<<0>>), Unreadable, Picture(<<255>>)>>
    /\ heuristics.visual_variance = Frac(255, 1)

----------------------------------------------------------------------------
(* SpecCli: app.main.  The process runs its stages in order; each external *)
(* stage returns or raises; run_analysis is the pipeline above.  When the  *)
(* process has ended, exit_status holds its status and cli_pc the stage    *)
(* it ended in.                                                            *)

runVars ==
    <<chunk_words, heuristics, chunks, chunk_notes, rolling_summary, results,
      content, reply, outcome, calls, inflight, env_fault>>

\* print(...) on standard output
Printed(kind, text) == [kind |-> kind, text |-> text]

\* What the interpreter writes for an exception nothing catches
Traceback(cls) ==
    <<"Traceback (most recent call last):", "  File app.py, in main", cls>>

\* An exception leaves main: traceback on standard error, status 1
Uncaught(cls) ==
    /\ stderr' = Traceback(cls)
    /\ exit_status' = <<1>>
    /\ UNCHANGED <<cli_pc, stdout>>

\* print(message); sys.exit(1)
PrintAndExit(text) ==
    /\ stdout' = Append(stdout, Printed("failure", text))
    /\ exit_status' = <<1>>
    /\ UNCHANGED <<cli_pc, stderr>>

InitCli ==
    /\ pc = "idle"
    /\ transcript = <<>>
    /\ chunk_words = DefaultChunkWords
    /\ frame_paths = <<>>
    /\ heuristics = NoHeuristics
    /\ chunks = <<>>
    /\ chunk_notes = <<>>
    /\ rolling_summary = <<>>
    /\ results = <<>>
    /\ content = <<>>
    /\ reply = <<>>
    /\ outcome = NoOutcome
    /\ calls = <<>>
    /\ inflight = 0
    /\ env_fault = "none"
    /\ duration = 0
    /\ files = <<>>
    /\ cli_pc = "api_key"
    /\ argv \in [source : {"youtube", "video"}, api_key : BOOLEAN]
    /\ stdout = <<>>
    /\ stderr = <<>>
    /\ exit_status = <<>>

\* no key given and none in the environment
ApiKeyMissing ==
    /\ cli_pc = "api_key" /\ exit_status = <<>>
    /\ ~argv.api_key
    /\ PrintAndExit(<<"missing OpenAI API key; set --api-key or OPENAI_API_KEY">>)
    /\ UNCHANGED <<runVars, pc, transcript, frame_paths, duration, files,
                   argv>>

\* prepare_workspace(), OpenAI(api_key=api_key)
ApiKeyPresent ==
    /\ cli_pc = "api_key" /\ exit_status = <<>>
    /\ argv.api_key
    /\ cli_pc' = "acquire"
    /\ UNCHANGED <<runVars, pc, transcript, frame_paths, duration, files,
                   argv, stdout, stderr, exit_status>>

DownloadReturns ==
    /\ cli_pc = "acquire" /\ exit_status = <<>>
    /\ argv.source = "youtube"
    /\ cli_pc' = "probe"
    /\ UNCHANGED <<runVars, pc, transcript, frame_paths, duration, files,
                   argv, stdout, stderr, exit_status>>

\* yt-dlp exits with an error, or leaves no source.* file
DownloadRaises ==
    /\ cli_pc = "acquire" /\ exit_status = <<>>
    /\ argv.source = "youtube"
    /\ \E cls \in {"CalledProcessError", "FileNotFoundError"} : Uncaught(cls)
    /\ UNCHANGED <<runVars, pc, transcript, frame_paths, duration, files,
                   argv>>

LocalVideoExists ==
    /\ cli_pc = "acquire" /\ exit_status = <<>>
    /\ argv.source = "video"
    /\ cli_pc' = "probe"
    /\ UNCHANGED <<runVars, pc, transcript, frame_paths, duration, files,
                   argv, stdout, stderr, exit_status>>

LocalVideoMissing ==
    /\ cli_pc = "acquire" /\ exit_status = <<>>
    /\ argv.source = "video"
    /\ PrintAndExit(<<"video file does not exist: ", "candidate">>)
    /\ UNCHANGED <<runVars, pc, transcript, frame_paths, duration, files,
                   argv>>

\* ffprobe prints the duration, or nothing, which is read as 0
ProbeReturns ==
    /\ cli_pc = "probe" /\ exit_status = <<>>
    /\ duration' \in RunDurations
    /\ cli_pc' = "extract_audio"
    /\ UNCHANGED <<runVars, pc, transcript, frame_paths, files,
                   argv, stdout, stderr, exit_status>>

\* ffprobe exits with an error, or prints what float() rejects
ProbeRaises ==
    /\ cli_pc = "probe" /\ exit_status = <<>>
    /\ \E cls \in {"CalledProcessError", "ValueError"} : Uncaught(cls)
    /\ UNCHANGED <<runVars, pc, transcript, frame_paths, duration, files,
                   argv>>

ExtractAudioReturns ==
    /\ cli_pc = "extract_audio" /\ exit_status = <<>>
    /\ stdout' = stdout \o <<Printed("progress", <<"Extracted audio to ", "audio.wav">>),
                             Printed("progress", <<"Transcribing audio...">>)>>
    /\ cli_pc' = "transcribe"
    /\ UNCHANGED <<runVars, pc, transcript, frame_paths, duration, files,
                   argv, stderr, exit_status>>

ExtractAudioRaises ==
    /\ cli_pc = "extract_audio" /\ exit_status = <<>>
    /\ Uncaught("CalledProcessError")
    /\ UNCHANGED <<runVars, pc, transcript, frame_paths, duration, files,
                   argv>>

TranscribeReturns ==
    /\ cli_pc = "transcribe" /\ exit_status = <<>>
    /\ \E n \in 0..MaxCliWords : transcript' = TranscriptOfWords(n)
    /\ stdout' = stdout \o
          <<Printed("progress",
                    <<"Transcription complete (language: ", "en", ")", "\n",
                      " Text: ">> \o transcript'),
            Printed("progress", <<"Sampling frames...">>)>>
    /\ cli_pc' = "sample_frames"
    /\ UNCHANGED <<runVars, pc, frame_paths, duration, files,
                   argv, stderr, exit_status>>

TranscribeRaises ==
    /\ cli_pc = "transcribe" /\ exit_status = <<>>
    /\ \E cls \in {"APIError", "OSError"} : Uncaught(cls)
    /\ UNCHANGED <<runVars, pc, transcript, frame_paths, duration, files,
                   argv>>

\* sample_frames returns the sorted frame files; run_analysis is entered
SampleFramesReturns ==
    /\ cli_pc = "sample_frames" /\ exit_status = <<>>
    /\ duration > 0
    /\ \E n \in 0..MaxFrames : frame_paths' = [k \in 1..n |-> k]
    /\ files' = FrameFiles
    /\ stdout' = Append(stdout,
          Printed("progress",
                  <<"Sampled ", ToString(Len(frame_paths')), " frames to ",
                    "frames">>))
    /\ cli_pc' = "run_analysis"
    /\ pc' = "heuristics"
    /\ UNCHANGED <<runVars, transcript, duration, argv, stderr, exit_status>>

\* no duration to sample by, or ffmpeg exits with an error
SampleFramesRaises ==
    /\ cli_pc = "sample_frames" /\ exit_status = <<>>
    /\ \/ duration <= 0 /\ Uncaught("ValueError")
       \/ duration > 0 /\ Uncaught("CalledProcessError")
    /\ UNCHANGED <<runVars, pc, transcript, frame_paths, duration, files,
                   argv>>

\* except Exception as exc: print(f"analysis failed: {exc}"); sys.exit(1)
AnalysisRaises ==
    /\ cli_pc = "run_analysis" /\ exit_status = <<>>
    /\ pc = "done"
    /\ outcome.status = "raised"
    /\ IsInstance(outcome.error, "Exception")
    /\ PrintAndExit(<<"analysis failed: ", outcome.error>>)
    /\ UNCHANGED <<runVars, pc, transcript, frame_paths, duration, files,
                   argv>>

\* print(json.dumps(analysis, ...)); main returns
AnalysisReturns ==
    /\ cli_pc = "run_analysis" /\ exit_status = <<>>
    /\ pc = "done"
    /\ outcome.status = "returned"
    /\ stdout' = Append(stdout, Printed("record", <<"json.dumps(analysis)">>))
    /\ cli_pc' = "finished"
    /\ exit_status' = <<0>>
    /\ UNCHANGED <<runVars, pc, transcript, frame_paths, duration, files,
                   argv, stderr>>

NextCli ==
    \/ ApiKeyMissing
    \/ ApiKeyPresent
    \/ DownloadReturns
    \/ DownloadRaises
    \/ LocalVideoExists
    \/ LocalVideoMissing
    \/ ProbeReturns
    \/ ProbeRaises
    \/ ExtractAudioReturns
    \/ ExtractAudioRaises
    \/ TranscribeReturns
    \/ TranscribeRaises
    \/ SampleFramesReturns
    \/ SampleFramesRaises
    \/ RunHeuristics
    \/ RunChunking
    \/ DescribeNextFrame
    \/ ReadFrameRaises
    \/ VisionReturns
    \/ VisionRaises
    \/ AssemblePrompt
    \/ CallGenerate
    \/ GenerateReturns
    \/ GenerateRaises
    \/ ParseReply
    \/ AnalysisRaises
    \/ AnalysisReturns

SpecCli == InitCli /\ [][NextCli]_vars

----------------------------------------------------------------------------
(* Command-line properties, checked under SpecCli *)

FailurePrints == SelectSeq(stdout, LAMBDA p : p.kind = "failure")
RecordPrints == SelectSeq(stdout, LAMBDA p : p.kind = "record")

OneLine(text) == \A i \in 1..Len(text) : text[i] # "\n"

\* The process has ended before main returned
EndedInFailure == exit_status # <<>> /\ cli_pc # "finished"

\* All the process says about a failure is one line, and its status is
\* not zero
OneLineFailureMessage ==
    EndedInFailure =>
        /\ Len(FailurePrints) = 1
        /\ OneLine(FailurePrints[1].text)
        /\ stderr = <<>>
        /\ exit_status # <<0>>

\* A record is printed only by a run whose every stage succeeded
RecordOnlyAfterEveryStage ==
    RecordPrints # <<>> =>
        /\ Len(RecordPrints) = 1
        /\ cli_pc = "finished"
        /\ exit_status = <<0>>
        /\ stderr = <<>>
        /\ FailurePrints = <<>>
        /\ pc = "done" /\ outcome.status = "returned"
        /\ duration > 0

\* What run_analysis raises is reported in one line, with status 1 and
\* no record
AnalysisFailureReported ==
    (exit_status # <<>> /\ outcome.status = "raised") =>
        /\ stdout[Len(stdout)] =
              Printed("failure", <<"analysis failed: ", outcome.error>>)
        /\ Len(FailurePrints) = 1
        /\ stderr = <<>>
        /\ exit_status = <<1>>
        /\ RecordPrints = <<>>

(* C14: in a run of the command line every fatal stage failure ends the    *)
(* process with a one-line failure message and a status that is not zero;  *)
(* a record is printed only when every stage has succeeded; a failure      *)
(* raised inside run_analysis is reported as the single line               *)
(* "analysis failed: <cause>" with status 1 and no record.                 *)
C14_FatalFailuresReportedInOneLine ==
    /\ OneLineFailureMessage
    /\ RecordOnlyAfterEveryStage
    /\ AnalysisFailureReported

====
